---- MODULE Spec2Model ----
\* WinPR file handles (winpr/libwinpr/file/file.c, the POSIX branch): the
\* WINPR_FILE record, the operations of the fileOps table, path-based
\* construction and descriptor adoption, over a small model of the host's
\* files, descriptor table and flock(2) advisory locks.
EXTENDS Integers, Sequences, FiniteSets, TLC

\* ---------------------------------------------------------------- bounds
MaxHandles == 2      \* WINPR_FILE records the heap can hold at once
MaxFd == 5           \* highest descriptor number of the process
MaxLen == 1          \* longest initial file content
MaxPending == 1      \* calls that may be blocked inside flock() at once
MaxIo == 2           \* longest transfer of one read or write

\* ------------------------------------------------------------- constants
StdMaxFd == 2        \* "Don't close stdin/stdout/stderr": fileno(fp) > 2
NullHandle == 0      \* a NULL HANDLE
INVALID_HANDLE_VALUE == -1
Limb == 10000000       \* 10^7: the ticks of a second, and the base of the limbs
UTIME_OMIT == 1073741822   \* (1 << 30) - 2: "leave this stamp as it is"

HandleIds == 1..MaxHandles
Fds == 0..MaxFd
StdFds == 0..StdMaxFd
InheritedFds == {StdMaxFd + 1}   \* a descriptor the host handed to the process
Paths == {"a", "b"}
Bytes == {1, 2}                  \* the bytes a caller writes; 0 fills a hole
MaxSize == MaxIo                 \* longest file, highest position
Lengths == 0..MaxIo

GENERIC_READ == "GENERIC_READ"
GENERIC_WRITE == "GENERIC_WRITE"
FILE_SHARE_READ == "FILE_SHARE_READ"
FILE_SHARE_WRITE == "FILE_SHARE_WRITE"
LOCKFILE_EXCLUSIVE_LOCK == "LOCKFILE_EXCLUSIVE_LOCK"
LOCKFILE_FAIL_IMMEDIATELY == "LOCKFILE_FAIL_IMMEDIATELY"

\* Inputs of the calls.
Accesses == {{GENERIC_READ}, {GENERIC_READ, GENERIC_WRITE}}
ShareModes == SUBSET {FILE_SHARE_READ, FILE_SHARE_WRITE}
ListedDispositions ==
  {"CREATE_NEW", "CREATE_ALWAYS", "OPEN_EXISTING", "OPEN_ALWAYS", "TRUNCATE_EXISTING"}
Dispositions == ListedDispositions \cup {"UNLISTED"}
LockFlags == SUBSET {LOCKFILE_EXCLUSIVE_LOCK, LOCKFILE_FAIL_IMMEDIATELY}
StdHandleIds == {"STD_INPUT_HANDLE", "STD_OUTPUT_HANDLE", "STD_ERROR_HANDLE", "OTHER"}
\* The place where the host makes a call fail although the model's state
\* would let it succeed (ENOMEM, EMFILE, EACCES, EINTR, ...).
CreateFaults ==
  {"none", "calloc", "strdup", "fopen_ab", "freopen", "fopen", "freopen_fopen", "flock"}
AdoptFaults == {"none", "fdopen", "calloc", "strdup"}
LockFaults == {"none", "flock"}
ReadFaults == {"none", "error", "wouldblock"}
WriteFaults == {"none", "error", "short"}
SizeFaults == {"none", "ftell", "fseek_end", "ftell_end", "fseek_back"}
TruncFaults == {"none", "ftruncate"}
MoveMethods == {"FILE_BEGIN", "FILE_CURRENT", "FILE_END", "OTHER"}
Distances == -1..MaxSize

\* A 64-bit number is written in base 10^7, most significant limb first:
\* <<a, b, c>> is a * 10^14 + b * 10^7 + c. A time_t is <<hi, lo>>: hi * 10^7 + lo.
Two64 == <<184467, 4407370, 9551616>>        \* 2^64
EPOCH_DIFF == <<0, 1164, 4473600>>           \* 11644473600
\* The FILETIME values a caller passes: 1601-01-01, 1970-01-01, one tick later,
\* and 2020-01-01 00:00:00.1234567.
TickValues ==
  {<<0, 0, 0>>, <<1164, 4473600, 0>>, <<1164, 4473600, 1>>, <<1322, 2310400, 1234567>>}
NullTime == <<-1, -1, -1>>                   \* a NULL FILETIME pointer
FileTimes == {NullTime} \cup TickValues
TimeFaults == {"none", "futimens"}

VARIABLES
  files,      \* path -> [exists, data]: the host's regular files
  fdtab,      \* descriptor -> [open, file, lock, pos]: the open file descriptions
  handles,    \* handle id -> the WINPR_FILE record at that address
  names,      \* ids whose lpFileName string is allocated
  lastError,  \* the value of GetLastError()
  pending,    \* calls blocked inside flock()
  last        \* the call that returned last, with its arguments and result

vars == <<files, fdtab, handles, names, lastError, pending, last>>

\* ------------------------------------------------------------ host model
\* The time stamps of a file nobody has set: the clock is not modelled, only
\* futimens() changes a stamp.
HostTime == [sec |-> <<-1, 0>>, nsec |-> 0]
NoFile == [exists |-> FALSE, data |-> <<>>, atime |-> HostTime, mtime |-> HostTime]
NewFile == [exists |-> TRUE, data |-> <<>>, atime |-> HostTime, mtime |-> HostTime]
ClosedFd == [open |-> FALSE, file |-> "none", lock |-> "none", pos |-> 0, wr |-> FALSE]
OpenFd(f) == [open |-> TRUE, file |-> f, lock |-> "none", pos |-> 0, wr |-> TRUE]
FreeRecord ==
  [alloc |-> FALSE, Type |-> "none", ops |-> "none", fp |-> -1, bLocked |-> FALSE,
   dwShareMode |-> {}]

\* The lowest descriptor number not in use, or -1 (EMFILE).
LowestFreeFd(tab) ==
  IF \E d \in Fds : ~tab[d].open
  THEN CHOOSE d \in Fds : ~tab[d].open /\ \A e \in Fds : e < d => tab[e].open
  ELSE -1

\* fopen(path, mode) of glibc on the files fs: [ok, files]. "wb+" creates or
\* truncates, "ab" creates, "rb+" and "rwb" (read as "r": the w is no leading
\* character) need the file to exist, the empty mode is EINVAL.
FopenFiles(fs, path, mode) ==
  CASE mode = "wb+" ->
         [ok |-> TRUE,
          files |-> IF fs[path].exists THEN [fs EXCEPT ![path].data = <<>>]
                    ELSE [fs EXCEPT ![path] = NewFile]]
    [] mode = "ab" ->
         [ok |-> TRUE,
          files |-> IF fs[path].exists THEN fs
                    ELSE [fs EXCEPT ![path] = NewFile]]
    [] mode \in {"rb+", "rwb"} -> [ok |-> fs[path].exists, files |-> fs]
    [] OTHER -> [ok |-> FALSE, files |-> fs]

\* flock(2): a lock belongs to an open file description; an exclusive request
\* conflicts with any lock of another description of the same file, a shared
\* request with an exclusive one.
FlockConflict(tab, fd, kind) ==
  \E d \in Fds \ {fd} :
    /\ tab[d].open
    /\ tab[d].file = tab[fd].file
    /\ tab[d].lock # "none"
    /\ (kind = "ex" \/ tab[d].lock = "ex")

\* The conversion of flock(2) is not atomic: a request of another kind than
\* the lock the description holds removes that lock before it looks for
\* conflicts.
FlockDropOwn(tab, fd, kind) ==
  IF tab[fd].lock \notin {"none", kind} THEN [tab EXCEPT ![fd].lock = "none"] ELSE tab

\* The bytes of the file behind a descriptor; a terminal or a pipe has none
\* to give.
FileData(fs, f) == IF f \in Paths THEN fs[f].data ELSE <<>>

Min(a, b) == IF a < b THEN a ELSE b
Max(a, b) == IF a > b THEN a ELSE b

\* write(2) of the bytes B at offset pos: the file grows as needed and a hole
\* before pos reads as zeros.
Overwrite(data, pos, B) ==
  [i \in 1..Max(Len(data), pos + Len(B)) |->
     IF i > pos /\ i <= pos + Len(B) THEN B[i - pos]
     ELSE IF i <= Len(data) THEN data[i] ELSE 0]

\* ftruncate(2) to size bytes: cut, or extended with zeros.
Resize(data, size) == [i \in 1..size |-> IF i <= Len(data) THEN data[i] ELSE 0]

RECURSIVE SeqsOfLen(_)
SeqsOfLen(n) ==
  IF n = 0 THEN {<<>>} ELSE {Append(s, b) : s \in SeqsOfLen(n - 1), b \in Bytes}

\* The buffers a caller writes.
Buffers == UNION {SeqsOfLen(n) : n \in Lengths}

\* ------------------------------------------------------------ the program
\* FileIsHandled: a non-NULL handle of type HANDLE_TYPE_FILE.
FileIsHandled(hs, h) == h # NullHandle /\ hs[h].Type = "HANDLE_TYPE_FILE"

\* ClosesStream with the bound off by one: stderr is closed too.
ClosesStreamFromStderr(fd) == fd >= StdMaxFd

\* fileno(fp) > 2: the stream FileCloseHandle closes.
ClosesStream(fd) == fd > StdMaxFd

\* FileCloseHandle without free(file->lpFileName).
FileCloseHandleLeaksName(tab, hs, nm, h) ==
  [fdtab |-> IF hs[h].fp # -1 /\ ClosesStream(hs[h].fp)
             THEN [tab EXCEPT ![hs[h].fp] = ClosedFd]
             ELSE tab,
   handles |-> [hs EXCEPT ![h] = FreeRecord],
   names |-> nm]

\* FileCloseHandle without fclose(file->fp).
FileCloseHandleNoFclose(tab, hs, nm, h) ==
  [fdtab |-> tab, handles |-> [hs EXCEPT ![h] = FreeRecord], names |-> nm \ {h}]

\* FileCloseHandle on a handled record: [fdtab, handles, names].
FileCloseHandle(tab, hs, nm, h) ==
  [fdtab |-> IF hs[h].fp # -1 /\ ClosesStream(hs[h].fp)
             THEN [tab EXCEPT ![hs[h].fp] = ClosedFd]
             ELSE tab,
   handles |-> [hs EXCEPT ![h] = FreeRecord],
   names |-> nm \ {h}]

\* FileGetMode with CREATE_ALWAYS not looking at the access.
FileGetModeIgnoresAccess(access, disp) ==
  CASE disp = "CREATE_ALWAYS" -> [create |-> TRUE, mode |-> "wb+"]
    [] disp = "CREATE_NEW" -> [create |-> TRUE, mode |-> "wb+"]
    [] disp = "OPEN_ALWAYS" -> [create |-> TRUE, mode |-> "rb+"]
    [] disp = "OPEN_EXISTING" -> [create |-> FALSE, mode |-> "rb+"]
    [] disp = "TRUNCATE_EXISTING" -> [create |-> FALSE, mode |-> "wb+"]
    [] OTHER -> [create |-> FALSE, mode |-> ""]

\* FileGetMode with the modes of OPEN_ALWAYS and TRUNCATE_EXISTING exchanged.
FileGetModeOpenAlwaysTruncates(access, disp) ==
  LET writeable == GENERIC_WRITE \in access
  IN CASE disp = "CREATE_ALWAYS" ->
            [create |-> TRUE, mode |-> IF writeable THEN "wb+" ELSE "rwb"]
       [] disp = "CREATE_NEW" -> [create |-> TRUE, mode |-> "wb+"]
       [] disp = "OPEN_ALWAYS" -> [create |-> TRUE, mode |-> "wb+"]
       [] disp = "OPEN_EXISTING" -> [create |-> FALSE, mode |-> "rb+"]
       [] disp = "TRUNCATE_EXISTING" -> [create |-> FALSE, mode |-> "rb+"]
       [] OTHER -> [create |-> FALSE, mode |-> ""]

\* FileGetMode: the fopen mode and the create flag.
\* FileGetMode giving OPEN_EXISTING the mode of TRUNCATE_EXISTING.
FileGetModeOpenExistingTruncates(access, disp) ==
  LET writeable == GENERIC_WRITE \in access
  IN CASE disp = "CREATE_ALWAYS" ->
            [create |-> TRUE, mode |-> IF writeable THEN "wb+" ELSE "rwb"]
       [] disp = "CREATE_NEW" -> [create |-> TRUE, mode |-> "wb+"]
       [] disp = "OPEN_ALWAYS" -> [create |-> TRUE, mode |-> "rb+"]
       [] disp = "OPEN_EXISTING" -> [create |-> FALSE, mode |-> "wb+"]
       [] disp = "TRUNCATE_EXISTING" -> [create |-> FALSE, mode |-> "wb+"]
       [] OTHER -> [create |-> FALSE, mode |-> ""]

FileGetMode(access, disp) ==
  LET writeable == GENERIC_WRITE \in access
  IN CASE disp = "CREATE_ALWAYS" ->
            [create |-> TRUE, mode |-> IF writeable THEN "wb+" ELSE "rwb"]
       [] disp = "CREATE_NEW" -> [create |-> TRUE, mode |-> "wb+"]
       [] disp = "OPEN_ALWAYS" -> [create |-> TRUE, mode |-> "rb+"]
       [] disp = "OPEN_EXISTING" -> [create |-> FALSE, mode |-> "rb+"]
       [] disp = "TRUNCATE_EXISTING" -> [create |-> FALSE, mode |-> "wb+"]
       [] OTHER -> [create |-> FALSE, mode |-> ""]

\* ShareLock with the two share bits exchanged.
ShareLockSwapped(share) ==
  IF FILE_SHARE_READ \in share THEN "ex"
  ELSE IF FILE_SHARE_WRITE \in share THEN "sh" ELSE "none"

\* The flock() operation FileCreateFileA asks for: 0 (none) unless the share
\* mode has a share bit, LOCK_EX when it has FILE_SHARE_WRITE.
ShareLock(share) ==
  IF FILE_SHARE_WRITE \in share THEN "ex"
  ELSE IF FILE_SHARE_READ \in share THEN "sh" ELSE "none"

WantsShareLock(share) == share \cap {FILE_SHARE_READ, FILE_SHARE_WRITE} # {}

\* The flock() operation of FileLockFileEx.
LockKind(flags) == IF LOCKFILE_EXCLUSIVE_LOCK \in flags THEN "ex" ELSE "sh"

\* The addresses calloc can return.
FreeIds(hs, nm) == {i \in HandleIds : ~hs[i].alloc /\ i \notin nm}

FileRecord(fd) ==
  [alloc |-> TRUE, Type |-> "HANDLE_TYPE_FILE", ops |-> "fileOps", fp |-> fd,
   bLocked |-> FALSE, dwShareMode |-> {}]

\* pFile->bLocked = TRUE, after flock() succeeded (FileCreateFileA, FileLockFileEx).
MarkLocked(rec) == [rec EXCEPT !.bLocked = TRUE]

\* FileCreateFileA up to its return or to the point where flock() blocks:
\* [status, why, h, fd, err, files, fdtab, handles, names], status one of "ok"
\* (returns the handle h), "invalid" (returns INVALID_HANDLE_VALUE) and
\* "blocked" (waits inside flock); why names the failing step; fd is the
\* descriptor of the stream it opened (-1: none); err is the SetLastError
\* value or "keep".
FileCreateFileA(fs, tab, hs, nm, path, access, share, disp, fault) ==
  LET gm == FileGetMode(access, disp)
      free == FreeIds(hs, nm)
      h == CHOOSE i \in free : \A j \in free : i <= j
      fd == LowestFreeFd(tab)
      Fail(why, err, fs1) ==
        [status |-> "invalid", why |-> why, h |-> INVALID_HANDLE_VALUE, fd |-> -1,
         err |-> err, files |-> fs1, fdtab |-> tab, handles |-> hs, names |-> nm]
      \* if (create): fopen(name, "ab")
      abOk == fault # "fopen_ab" /\ fd # -1
      fs1 == IF gm.create THEN FopenFiles(fs, path, "ab").files ELSE fs
      \* freopen(name, mode, fp), and fopen(name, mode) when fp is NULL
      reOk == gm.create /\ fault \notin {"freopen", "freopen_fopen"}
              /\ FopenFiles(fs1, path, gm.mode).ok
      opOk == fault \notin {"fopen", "freopen_fopen"} /\ fd # -1
              /\ FopenFiles(fs1, path, gm.mode).ok
      fs2 == FopenFiles(fs1, path, gm.mode).files
      \* "rwb" opens the stream for reading only
      tab1 == [tab EXCEPT ![fd] = [OpenFd(path) EXCEPT !.wr = (gm.mode # "rwb")]]
      hs1 == [hs EXCEPT ![h] = [FileRecord(fd) EXCEPT !.dwShareMode = share]]
      nm1 == nm \cup {h}
      kind == ShareLock(share)
      Opened(st, tab2, hs2) ==
        [status |-> st, why |-> "none", h |-> h, fd |-> fd, err |-> "keep",
         files |-> fs2, fdtab |-> tab2, handles |-> hs2, names |-> nm1]
  IN IF fault = "calloc" \/ free = {} THEN Fail("memory", "ERROR_NOT_ENOUGH_MEMORY", fs)
     ELSE IF fault = "strdup" THEN Fail("memory", "ERROR_NOT_ENOUGH_MEMORY", fs)
     ELSE IF gm.create /\ ~abOk THEN Fail("open", "keep", fs)
     ELSE IF ~(reOk \/ opOk) THEN Fail("open", "keep", fs1)
     ELSE IF ~WantsShareLock(share) THEN Opened("ok", tab1, hs1)
     ELSE IF fault = "flock" THEN
       LET c == FileCloseHandle(tab1, hs1, nm1, h)
       IN [status |-> "invalid", why |-> "flock", h |-> INVALID_HANDLE_VALUE, fd |-> fd,
           err |-> "keep", files |-> fs2, fdtab |-> c.fdtab, handles |-> c.handles,
           names |-> c.names]
     ELSE IF FlockConflict(tab1, fd, kind) THEN Opened("blocked", tab1, hs1)
     ELSE Opened("ok", [tab1 EXCEPT ![fd].lock = kind], [hs1 EXCEPT ![h] = MarkLocked(@)])

\* FileLockFileEx setting bLocked before flock() has succeeded.
FileLockFileExMarksFirst(tab, hs, h, flags, overlapped, fault) ==
  LET fd == hs[h].fp
      kind == LockKind(flags)
      hs1 == [hs EXCEPT ![h] = MarkLocked(@)]
      Result(st, why, tab1, hs2) ==
        [status |-> st, why |-> why, fdtab |-> tab1, handles |-> hs2]
  IN IF hs[h].bLocked THEN Result("fail", "locked", tab, hs)
     ELSE IF overlapped THEN Result("fail", "overlapped", tab, hs)
     ELSE IF ~tab[fd].open \/ fault = "flock" THEN Result("fail", "flock", tab, hs1)
     ELSE IF FlockConflict(tab, fd, kind) THEN
       IF LOCKFILE_FAIL_IMMEDIATELY \in flags
       THEN Result("fail", "flock", FlockDropOwn(tab, fd, kind), hs1)
       ELSE Result("blocked", "none", FlockDropOwn(tab, fd, kind), hs)
     ELSE Result("ok", "none", [tab EXCEPT ![fd].lock = kind], hs1)

\* FileLockFileEx on a non-NULL handle: [status, why, fdtab, handles], status
\* one of "ok" (TRUE), "fail" (FALSE) and "blocked" (waits inside flock).
FileLockFileEx(tab, hs, h, flags, overlapped, fault) ==
  LET fd == hs[h].fp
      kind == LockKind(flags)
      Result(st, why, tab1, hs1) ==
        [status |-> st, why |-> why, fdtab |-> tab1, handles |-> hs1]
  IN IF hs[h].bLocked THEN Result("fail", "locked", tab, hs)
     ELSE IF overlapped THEN Result("fail", "overlapped", tab, hs)
     ELSE IF ~tab[fd].open \/ fault = "flock" THEN Result("fail", "flock", tab, hs)
     ELSE IF FlockConflict(tab, fd, kind) THEN
       IF LOCKFILE_FAIL_IMMEDIATELY \in flags
       THEN Result("fail", "flock", FlockDropOwn(tab, fd, kind), hs)
       ELSE Result("blocked", "none", FlockDropOwn(tab, fd, kind), hs)
     ELSE Result("ok", "none", [tab EXCEPT ![fd].lock = kind],
                 [hs EXCEPT ![h] = MarkLocked(@)])

\* FileUnlockFile on a non-NULL handle: [ok, why, fdtab, handles].
FileUnlockFile(tab, hs, h, fault) ==
  LET fd == hs[h].fp
      Result(ok, why, tab1) == [ok |-> ok, why |-> why, fdtab |-> tab1, handles |-> hs]
  IN IF ~hs[h].bLocked THEN Result(FALSE, "notlocked", tab)
     ELSE IF ~tab[fd].open \/ fault = "flock" THEN Result(FALSE, "flock", tab)
     ELSE Result(TRUE, "none", [tab EXCEPT ![fd].lock = "none"])

\* FileUnlockFileEx on a non-NULL handle: [ok, why, fdtab, handles].
FileUnlockFileEx(tab, hs, h, overlapped, fault) ==
  LET fd == hs[h].fp
      Result(ok, why, tab1) == [ok |-> ok, why |-> why, fdtab |-> tab1, handles |-> hs]
  IN IF ~hs[h].bLocked THEN Result(FALSE, "notlocked", tab)
     ELSE IF overlapped THEN Result(FALSE, "overlapped", tab)
     ELSE IF ~tab[fd].open \/ fault = "flock" THEN Result(FALSE, "flock", tab)
     ELSE Result(TRUE, "none", [tab EXCEPT ![fd].lock = "none"])

\* FileSetEndOfFile that cuts a file but never extends it.
FileSetEndOfFileNeverExtends(fs, tab, hs, h, fault) ==
  LET fd == hs[h].fp
      f == tab[fd].file
  IN IF ~tab[fd].open \/ ~tab[fd].wr \/ f \notin Paths \/ fault = "ftruncate"
     THEN [ok |-> FALSE, files |-> fs]
     ELSE [ok |-> TRUE,
           files |-> [fs EXCEPT ![f].data = Resize(@, Min(Len(@), tab[fd].pos))]]

\* FileSetEndOfFile on a non-NULL handle: ftruncate(fileno(fp), ftell(fp)).
\* [ok, files]; the position of the stream is not touched.
FileSetEndOfFile(fs, tab, hs, h, fault) ==
  LET fd == hs[h].fp
      f == tab[fd].file
  IN IF ~tab[fd].open \/ ~tab[fd].wr \/ f \notin Paths \/ fault = "ftruncate"
     THEN [ok |-> FALSE, files |-> fs]
     ELSE [ok |-> TRUE, files |-> [fs EXCEPT ![f].data = Resize(@, tab[fd].pos)]]

\* FileSetFilePointer on a non-NULL handle: [ok, ret, fdtab]; ret is the
\* position ftell() reports, ok is FALSE when INVALID_SET_FILE_POINTER is
\* returned. lpDistanceToMoveHigh is not read.
FileSetFilePointer(fs, tab, hs, h, lDistanceToMove, dwMoveMethod) ==
  LET fd == hs[h].fp
      base == CASE dwMoveMethod = "FILE_BEGIN" -> 0
                [] dwMoveMethod = "FILE_END" -> Len(FileData(fs, tab[fd].file))
                [] OTHER -> tab[fd].pos
      target == base + lDistanceToMove
      Invalid == [ok |-> FALSE, ret |-> -1, fdtab |-> tab]
  IN IF dwMoveMethod \notin {"FILE_BEGIN", "FILE_END", "FILE_CURRENT"} THEN Invalid
     ELSE IF ~tab[fd].open \/ target < 0 THEN Invalid
     ELSE [ok |-> TRUE, ret |-> target, fdtab |-> [tab EXCEPT ![fd].pos = target]]

\* FileRead without the test of lpOverlapped.
FileReadIgnoresOverlapped(fs, tab, hs, h, n, overlapped, fault) ==
  LET fd == hs[h].fp
      data == FileData(fs, tab[fd].file)
      pos == tab[fd].pos
      got == IF ~tab[fd].open \/ fault = "error" THEN 0
             ELSE Min(n, Max(0, Len(data) - pos))
      io_status == IF n > 0 /\ got = n THEN 1 ELSE 0
  IN [ok |-> io_status = 1,
      count |-> n,
      moved |-> got,
      data |-> SubSeq(data, pos + 1, pos + got),
      fdtab |-> IF got > 0 THEN [tab EXCEPT ![fd].pos = pos + got] ELSE tab,
      err |-> IF io_status # 1 /\ fault = "wouldblock" THEN "ERROR_NO_DATA" ELSE "keep"]

\* FileRead on a non-NULL handle: [ok, count, moved, data, fdtab, err]. count
\* is what *lpNumberOfBytesRead holds after the call (-1: not written), moved
\* the bytes fread() put into the buffer, data those bytes. fread(buf, n, 1, fp)
\* returns 1 only when n > 0 and all n bytes were read.
FileRead(fs, tab, hs, h, n, overlapped, fault) ==
  LET fd == hs[h].fp
      data == FileData(fs, tab[fd].file)
      pos == tab[fd].pos
      got == IF ~tab[fd].open \/ fault = "error" THEN 0
             ELSE Min(n, Max(0, Len(data) - pos))
      io_status == IF n > 0 /\ got = n THEN 1 ELSE 0
  IN IF overlapped
     THEN [ok |-> FALSE, count |-> -1, moved |-> 0, data |-> <<>>, fdtab |-> tab,
           err |-> "keep"]
     ELSE [ok |-> io_status = 1,
           count |-> n,
           moved |-> got,
           data |-> SubSeq(data, pos + 1, pos + got),
           fdtab |-> IF got > 0 THEN [tab EXCEPT ![fd].pos = pos + got] ELSE tab,
           err |-> IF io_status # 1 /\ fault = "wouldblock" THEN "ERROR_NO_DATA"
                   ELSE "keep"]

\* FileWrite on a non-NULL handle: [ok, count, moved, files, fdtab]. count is
\* what *lpNumberOfBytesWritten holds after the call (-1: not written), moved
\* the bytes that reached the file. fwrite(buf, n, 1, fp) returns 1 only when
\* n > 0 and all n bytes were written.
FileWrite(fs, tab, hs, h, B, overlapped, fault) ==
  LET fd == hs[h].fp
      f == tab[fd].file
      pos == tab[fd].pos
      n == Len(B)
      put == IF ~tab[fd].open \/ ~tab[fd].wr \/ fault = "error" THEN 0
             ELSE IF fault = "short" THEN Max(0, n - 1)
             ELSE n
      io_status == IF n > 0 /\ put = n THEN 1 ELSE 0
  IN IF overlapped
     THEN [ok |-> FALSE, count |-> -1, moved |-> 0, files |-> fs, fdtab |-> tab]
     ELSE [ok |-> io_status = 1,
           count |-> IF io_status = 1 THEN n ELSE -1,
           moved |-> put,
           files |-> IF put > 0 /\ f \in Paths
                     THEN [fs EXCEPT ![f].data = Overwrite(@, pos, SubSeq(B, 1, put))]
                     ELSE fs,
           fdtab |-> IF put > 0 THEN [tab EXCEPT ![fd].pos = pos + put] ELSE tab]

\* FileGetFileSize without the fseek() back to where the stream was.
FileGetFileSizeStaysAtEnd(fs, tab, hs, h, fault) ==
  LET fd == hs[h].fp
      size == Len(FileData(fs, tab[fd].file))
  IN IF ~tab[fd].open \/ fault # "none"
     THEN [ok |-> FALSE, ret |-> -1, fdtab |-> tab]
     ELSE [ok |-> TRUE, ret |-> size, fdtab |-> [tab EXCEPT ![fd].pos = size]]

\* FileGetFileSize on a non-NULL handle: [ok, ret, fdtab]; ok is FALSE when
\* INVALID_FILE_SIZE is returned. A failure after fseek(fp, 0, SEEK_END)
\* leaves the stream at the end of the file.
FileGetFileSize(fs, tab, hs, h, fault) ==
  LET fd == hs[h].fp
      size == Len(FileData(fs, tab[fd].file))
      atEnd == [tab EXCEPT ![fd].pos = size]
  IN IF ~tab[fd].open \/ fault \in {"ftell", "fseek_end"}
     THEN [ok |-> FALSE, ret |-> -1, fdtab |-> tab]
     ELSE IF fault \in {"ftell_end", "fseek_back"}
     THEN [ok |-> FALSE, ret |-> -1, fdtab |-> atEnd]
     ELSE [ok |-> TRUE, ret |-> size, fdtab |-> tab]

\* x - y on three limbs; the first limb is negative when x < y.
Sub3(x, y) ==
  LET c == x[3] - y[3]
      bc == IF c < 0 THEN 1 ELSE 0
      b == x[2] - y[2] - bc
      bb == IF b < 0 THEN 1 ELSE 0
  IN <<x[1] - y[1] - bb, b + bb * Limb, c + bc * Limb>>

\* x + y on three limbs.
Add3(x, y) ==
  LET c == x[3] + y[3]
      b == x[2] + y[2] + c \div Limb
  IN <<x[1] + y[1] + b \div Limb, b % Limb, c % Limb>>

\* x - y in UINT64 arithmetic: modulo 2^64.
Sub64(x, y) == LET d == Sub3(x, y) IN IF d[1] < 0 THEN Add3(d, Two64) ELSE d

\* x / 10 in UINT64 arithmetic.
Div10(x) ==
  <<x[1] \div 10,
    ((x[1] % 10) * Limb + x[2]) \div 10,
    ((x[2] % 10) * Limb + x[3]) \div 10>>

\* The struct timespec FileSetFileTime makes of a FILETIME (the futimens
\* branch): tmp = ticks; tmp -= EPOCH_DIFF; tmp /= 10;
\* tv_sec = tmp / 10000000; tv_nsec = tmp % 10000000.
FileTimeToTimespec(ticks) ==
  LET tmp == Div10(Sub64(ticks, EPOCH_DIFF))
  IN [sec |-> <<tmp[1], tmp[2]>>, nsec |-> tmp[3]]

\* times[i] of FileSetFileTime: UTIME_OMIT when the argument is NULL.
TimesEntry(lpTime) ==
  IF lpTime = NullTime
  THEN [sec |-> <<UTIME_OMIT \div Limb, UTIME_OMIT % Limb>>, nsec |-> UTIME_OMIT]
  ELSE FileTimeToTimespec(lpTime)

\* futimens(2) on one stamp: tv_nsec = UTIME_OMIT leaves it as it is.
Futimens(stamp, entry) == IF entry.nsec = UTIME_OMIT THEN stamp ELSE entry

\* FileSetFileTime on a non-NULL handle: [ok, files]. lpCreationTime is not
\* read.
FileSetFileTime(fs, tab, hs, h, lpCreationTime, lpLastAccessTime, lpLastWriteTime, fault) ==
  LET fd == hs[h].fp
      f == tab[fd].file
      times == <<TimesEntry(lpLastAccessTime), TimesEntry(lpLastWriteTime)>>
  IN IF ~tab[fd].open \/ fault = "futimens" THEN [ok |-> FALSE, files |-> fs]
     ELSE [ok |-> TRUE,
           files |-> IF f \in Paths
                     THEN [fs EXCEPT ![f].atime = Futimens(@, times[1]),
                                     ![f].mtime = Futimens(@, times[2])]
                     ELSE fs]

\* FileHandle_New binding the table of the path-opened handles.
FileHandle_NewBindsFileOps(hs, nm, fd, fault) ==
  LET free == FreeIds(hs, nm)
      h == CHOOSE i \in free : \A j \in free : i <= j
  IN IF fault = "calloc" \/ free = {}
     THEN [h |-> NullHandle, err |-> "ERROR_NOT_ENOUGH_MEMORY", handles |-> hs, names |-> nm]
     ELSE [h |-> h, err |-> "keep",
           handles |-> [hs EXCEPT ![h] = FileRecord(fd)],
           names |-> IF fault = "strdup" THEN nm ELSE nm \cup {h}]

\* FileHandle_New(fp): [h, err, handles, names]; h is NullHandle when calloc
\* fails. The result of _strdup is not tested.
FileHandle_New(hs, nm, fd, fault) ==
  LET free == FreeIds(hs, nm)
      h == CHOOSE i \in free : \A j \in free : i <= j
  IN IF fault = "calloc" \/ free = {}
     THEN [h |-> NullHandle, err |-> "ERROR_NOT_ENOUGH_MEMORY", handles |-> hs, names |-> nm]
     ELSE [h |-> h, err |-> "keep",
           handles |-> [hs EXCEPT ![h] = [FileRecord(fd) EXCEPT !.ops = "shmOps"]],
           names |-> IF fault = "strdup" THEN nm ELSE nm \cup {h}]

\* The two HANDLE_OPS tables: the entries that are not NULL.
shmOps == {"FileIsHandled", "FileCloseHandle", "FileGetFd", "FileRead", "FileWrite"}
fileOps ==
  shmOps \cup {"FileGetFileSize", "FileSetEndOfFile", "FileSetFilePointer",
               "FileLockFileEx", "FileUnlockFile", "FileUnlockFileEx", "FileSetFileTime"}

\* The table pFile->ops points to.
HandleOps(ops) == IF ops = "fileOps" THEN fileOps ELSE IF ops = "shmOps" THEN shmOps ELSE {}

\* The stream GetStdHandle wraps, by its descriptor number; -1 in the default case.
StdStream(nStdHandle) ==
  CASE nStdHandle = "STD_INPUT_HANDLE" -> 0
    [] nStdHandle = "STD_OUTPUT_HANDLE" -> 1
    [] nStdHandle = "STD_ERROR_HANDLE" -> 2
    [] OTHER -> -1

\* What each handler of the table does with a NULL handle: the value it
\* returns and the SetLastError value ("keep": none).
FileSetEndOfFileNull == [ret |-> "FALSE", err |-> "keep"]
FileSetFilePointerNull == [ret |-> "INVALID_SET_FILE_POINTER", err |-> "keep"]
FileReadNull == [ret |-> "FALSE", err |-> "keep"]
FileWriteNull == [ret |-> "FALSE", err |-> "keep"]
FileGetFileSizeNull == [ret |-> "0", err |-> "keep"]
FileSetFileTimeNull == [ret |-> "FALSE", err |-> "keep"]

NullOnlyOps ==
  {"FileSetEndOfFile", "FileSetFilePointer", "FileRead", "FileWrite", "FileGetFileSize",
   "FileSetFileTime"}

NullResult(op) ==
  CASE op = "FileSetEndOfFile" -> FileSetEndOfFileNull
    [] op = "FileSetFilePointer" -> FileSetFilePointerNull
    [] op = "FileRead" -> FileReadNull
    [] op = "FileWrite" -> FileWriteNull
    [] op = "FileGetFileSize" -> FileGetFileSizeNull
    [] op = "FileSetFileTime" -> FileSetFileTimeNull

\* ------------------------------------------------------------- the calls
\* last: the call that has returned and whose result the caller has not yet
\* taken (op is "none" between calls). ret is its result, why the step that
\* made it fail, h the handle it was given or returned, fd the descriptor it
\* was given or worked on, path the file it worked on; access, share and disp
\* are FileCreateFileA's arguments, mode and create what FileGetMode gave it,
\* pre the file as it was when the call was made, waited whether the call
\* waited inside flock(); locked and lock are the handle's bLocked and the
\* lock of its description when the call was made. afterOp and afterH tell the
\* call made right before it, when that was a successful lock or unlock:
\* "lock" or "unlock", and its handle. For the calls that move bytes or the
\* position: pos is the position of the stream when the call was made, n the
\* length or distance asked for, method the origin of a seek, count the number
\* the call reported (bytes, position or size; -1: none), moved the bytes
\* transferred, data those bytes, times the three FILETIME arguments. afterOp
\* also follows two sequences of calls on one handle: "seek" (a successful seek
\* from FILE_BEGIN to afterX), then "seeksize" (a successful size query after
\* it); and "new" (CREATE_NEW on an existing file afterPath), "newwrite" (the
\* write of afterData to it), "newclose" (its close), "reopen" (OPEN_EXISTING
\* of afterPath, afterH being the new handle). For the calls that construct a
\* handle: recs and strs are the records and the name strings allocated when
\* the call was made.
NoCall ==
  [op |-> "none", h |-> NullHandle, ret |-> "none", why |-> "none",
   path |-> "none", access |-> {}, share |-> {}, disp |-> "none", mode |-> "none",
   create |-> FALSE, pre |-> NoFile, waited |-> FALSE, fd |-> -1,
   locked |-> FALSE, lock |-> "none", afterOp |-> "none", afterH |-> NullHandle,
   pos |-> 0, n |-> 0, method |-> "none", count |-> -1, moved |-> 0, data |-> <<>>,
   times |-> <<NullTime, NullTime, NullTime>>,
   afterX |-> 0, afterPath |-> "none", afterData |-> <<>>,
   recs |-> {}, strs |-> {}]

\* The record of a call that returns now.
Call(op, h, ret, why) ==
  [NoCall EXCEPT !.op = op, !.h = h, !.ret = ret, !.why = why,
                 !.afterOp = last.afterOp, !.afterH = last.afterH,
                 !.afterX = last.afterX, !.afterPath = last.afterPath,
                 !.afterData = last.afterData]

\* The record of a call that constructs a handle and returns now.
Allocated(hs) == {i \in HandleIds : hs[i].alloc}
Construction(op, h, ret, why) ==
  [Call(op, h, ret, why) EXCEPT !.recs = Allocated(handles), !.strs = names]

\* No result is waiting for its caller.
Idle == last.op = "none"

\* The caller takes the result of the call that returned.
Observe ==
  /\ ~Idle
  /\ last' = IF last.op = "FileLockFileEx" /\ last.ret = "TRUE"
             THEN [NoCall EXCEPT !.afterOp = "lock", !.afterH = last.h]
             ELSE IF last.op \in {"FileUnlockFile", "FileUnlockFileEx"} /\ last.ret = "TRUE"
             THEN [NoCall EXCEPT !.afterOp = "unlock", !.afterH = last.h]
             ELSE IF last.op = "FileSetFilePointer" /\ last.ret = "POSITION"
                     /\ last.method = "FILE_BEGIN"
             THEN [NoCall EXCEPT !.afterOp = "seek", !.afterH = last.h, !.afterX = last.n]
             ELSE IF last.op = "FileGetFileSize" /\ last.ret = "SIZE"
                     /\ last.afterOp = "seek" /\ last.afterH = last.h
             THEN [NoCall EXCEPT !.afterOp = "seeksize", !.afterH = last.h,
                                 !.afterX = last.afterX]
             ELSE IF last.op = "FileCreateFileA" /\ last.ret = "HANDLE"
                     /\ last.disp = "OPEN_EXISTING"
                     /\ last.afterOp = "newclose" /\ last.afterPath = last.path
             THEN [NoCall EXCEPT !.afterOp = "reopen", !.afterH = last.h,
                                 !.afterPath = last.path, !.afterData = last.afterData]
             ELSE IF last.op = "FileCreateFileA" /\ last.ret = "HANDLE"
                     /\ last.disp = "CREATE_NEW" /\ last.pre.exists
             THEN [NoCall EXCEPT !.afterOp = "new", !.afterH = last.h,
                                 !.afterPath = last.path]
             ELSE IF last.op = "FileWrite" /\ last.why = "none" /\ last.moved = last.n
                     /\ last.afterOp = "new" /\ last.afterH = last.h
             THEN [NoCall EXCEPT !.afterOp = "newwrite", !.afterH = last.h,
                                 !.afterPath = last.afterPath, !.afterData = last.data]
             ELSE IF last.op = "FileCloseHandle" /\ last.ret = "TRUE"
                     /\ last.afterOp = "newwrite" /\ last.afterH = last.h
             THEN [NoCall EXCEPT !.afterOp = "newclose", !.afterPath = last.afterPath,
                                 !.afterData = last.afterData]
             ELSE NoCall
  /\ UNCHANGED <<files, fdtab, handles, names, lastError, pending>>

BoolRet(b) == IF b THEN "TRUE" ELSE "FALSE"
HandleRet(h) == IF h \in HandleIds THEN "HANDLE" ELSE "INVALID_HANDLE_VALUE"

SetLastError(err) == lastError' = IF err = "keep" THEN lastError ELSE err

\* The live handles a caller may pass: those no blocked call is working on.
Busy(h) == \E p \in pending : p.h = h
Live == {h \in HandleIds : handles[h].alloc /\ ~Busy(h)}
LiveFiles == {h \in Live : handles[h].ops = "fileOps"}
PendingFds == {handles[p.h].fp : p \in pending}

InitContents == {[i \in 1..n |-> 1] : n \in 0..MaxLen}

InitWith(fs) ==
  /\ files = fs
  /\ fdtab = [d \in Fds |-> IF d \in StdFds THEN OpenFd("tty")
                             ELSE IF d \in InheritedFds THEN OpenFd("ext")
                             ELSE ClosedFd]
  /\ handles = [h \in HandleIds |-> FreeRecord]
  /\ names = {}
  /\ lastError = "ERROR_SUCCESS"
  /\ pending = {}
  /\ last = NoCall

\* Any of the files may exist, with any content up to MaxLen bytes.
Init ==
  \E fs \in [Paths -> {NoFile} \cup {[NewFile EXCEPT !.data = s] : s \in InitContents}] :
    InitWith(fs)

\* Any of the files may exist, and is empty if it does.
InitAbsentOrEmpty ==
  \E fs \in [Paths -> {NoFile, NewFile}] : InitWith(fs)

\* Every file exists and is empty.
InitEmptyFiles == InitWith([p \in Paths |-> NewFile])

\* CreateFileA through the file handle creator.
CreateFile(path, access, share, disp, fault) ==
  /\ Idle
  /\ LET r == FileCreateFileA(files, fdtab, handles, names, path, access, share, disp, fault)
         gm == FileGetMode(access, disp)
         call == [Construction("FileCreateFileA", r.h, HandleRet(r.h), r.why)
                    EXCEPT !.path = path, !.access = access, !.share = share, !.disp = disp,
                           !.mode = gm.mode, !.create = gm.create, !.pre = files[path],
                           !.fd = r.fd]
     IN /\ r.status = "blocked" => Cardinality(pending) < MaxPending
        /\ files' = r.files
        /\ fdtab' = r.fdtab
        /\ handles' = r.handles
        /\ names' = r.names
        /\ SetLastError(r.err)
        /\ IF r.status = "blocked"
           THEN /\ pending' = pending \cup
                     {[h |-> r.h, kind |-> ShareLock(share),
                       call |-> [call EXCEPT !.waited = TRUE]]}
                /\ UNCHANGED last
           ELSE /\ last' = call
                /\ UNCHANGED pending

LockFileEx(h, flags, overlapped, fault) ==
  /\ Idle
  /\ IF h = NullHandle
     THEN /\ last' = Call("FileLockFileEx", h, "FALSE", "null")
          /\ UNCHANGED <<files, fdtab, handles, names, lastError, pending>>
     ELSE LET r == FileLockFileEx(fdtab, handles, h, flags, overlapped, fault)
              call == [Call("FileLockFileEx", h, BoolRet(r.status = "ok"), r.why)
                         EXCEPT !.fd = handles[h].fp, !.locked = handles[h].bLocked]
          IN /\ r.status = "blocked" => Cardinality(pending) < MaxPending
             /\ fdtab' = r.fdtab
             /\ handles' = r.handles
             /\ IF r.status = "blocked"
                THEN /\ pending' = pending \cup
                          {[h |-> h, kind |-> LockKind(flags),
                            call |-> [call EXCEPT !.waited = TRUE]]}
                     /\ UNCHANGED last
                ELSE /\ last' = call
                     /\ UNCHANGED pending
             /\ UNCHANGED <<files, names, lastError>>

\* A blocked flock() is granted once no other description holds a conflicting
\* lock: the caller sets bLocked and returns its success value.
FlockGranted(p) ==
  /\ Idle
  /\ LET fd == handles[p.h].fp
     IN /\ fdtab[fd].open
        /\ ~FlockConflict(fdtab, fd, p.kind)
        /\ fdtab' = [fdtab EXCEPT ![fd].lock = p.kind]
        /\ handles' = [handles EXCEPT ![p.h] = MarkLocked(@)]
        /\ pending' = pending \ {p}
        /\ last' = [p.call EXCEPT
                      !.ret = IF p.call.op = "FileCreateFileA" THEN "HANDLE" ELSE "TRUE",
                      !.afterOp = last.afterOp, !.afterH = last.afterH]
        /\ UNCHANGED <<files, names, lastError>>

\* A blocked flock() returns -1 (EINTR): FileCreateFileA closes the handle and
\* returns INVALID_HANDLE_VALUE, FileLockFileEx returns FALSE.
FlockInterrupted(p) ==
  /\ Idle
  /\ /\ pending' = pending \ {p}
     /\ UNCHANGED <<files, lastError>>
     /\ IF p.call.op = "FileCreateFileA"
        THEN LET c == FileCloseHandle(fdtab, handles, names, p.h)
             IN /\ fdtab' = c.fdtab
                /\ handles' = c.handles
                /\ names' = c.names
                /\ last' = [p.call EXCEPT !.h = INVALID_HANDLE_VALUE,
                                          !.ret = "INVALID_HANDLE_VALUE", !.why = "flock",
                                          !.afterOp = last.afterOp, !.afterH = last.afterH]
        ELSE /\ last' = [p.call EXCEPT !.ret = "FALSE", !.why = "flock",
                                       !.afterOp = last.afterOp, !.afterH = last.afterH]
             /\ UNCHANGED <<fdtab, handles, names>>

UnlockFile(h, fault) ==
  /\ Idle
  /\ IF h = NullHandle
     THEN /\ last' = Call("FileUnlockFile", h, "FALSE", "null")
          /\ UNCHANGED <<files, fdtab, handles, names, lastError, pending>>
     ELSE LET r == FileUnlockFile(fdtab, handles, h, fault)
          IN /\ fdtab' = r.fdtab
             /\ handles' = r.handles
             /\ last' = [Call("FileUnlockFile", h, BoolRet(r.ok), r.why)
                           EXCEPT !.fd = handles[h].fp, !.locked = handles[h].bLocked]
             /\ UNCHANGED <<files, names, lastError, pending>>

UnlockFileEx(h, overlapped, fault) ==
  /\ Idle
  /\ IF h = NullHandle
     THEN /\ last' = Call("FileUnlockFileEx", h, "FALSE", "null")
          /\ UNCHANGED <<files, fdtab, handles, names, lastError, pending>>
     ELSE LET r == FileUnlockFileEx(fdtab, handles, h, overlapped, fault)
          IN /\ fdtab' = r.fdtab
             /\ handles' = r.handles
             /\ last' = [Call("FileUnlockFileEx", h, BoolRet(r.ok), r.why)
                           EXCEPT !.fd = handles[h].fp, !.locked = handles[h].bLocked]
             /\ UNCHANGED <<files, names, lastError, pending>>

\* CloseHandle: FileIsHandled refuses a NULL handle with ERROR_INVALID_HANDLE.
CloseHandle(h) ==
  /\ Idle
  /\ IF ~FileIsHandled(handles, h)
     THEN /\ lastError' = "ERROR_INVALID_HANDLE"
          /\ last' = Call("FileCloseHandle", h, "FALSE", "null")
          /\ UNCHANGED <<files, fdtab, handles, names, pending>>
     ELSE LET c == FileCloseHandle(fdtab, handles, names, h)
          IN /\ handles[h].fp \notin PendingFds
             /\ fdtab' = c.fdtab
             /\ handles' = c.handles
             /\ names' = c.names
             /\ last' = [Call("FileCloseHandle", h, "TRUE", "none")
                           EXCEPT !.fd = handles[h].fp, !.path = fdtab[handles[h].fp].file,
                                  !.locked = handles[h].bLocked,
                                  !.lock = fdtab[handles[h].fp].lock]
             /\ UNCHANGED <<files, lastError, pending>>

\* FileGetFd: fileno(fp), or -1 with ERROR_INVALID_HANDLE.
GetFd(h) ==
  /\ Idle
  /\ /\ IF ~FileIsHandled(handles, h)
        THEN /\ lastError' = "ERROR_INVALID_HANDLE"
             /\ last' = Call("FileGetFd", h, "-1", "null")
        ELSE /\ last' = [Call("FileGetFd", h, "FD", "none") EXCEPT !.fd = handles[h].fp]
             /\ UNCHANGED lastError
     /\ UNCHANGED <<files, fdtab, handles, names, pending>>

\* The handlers that test only "!handle", called with a NULL handle.
NullCall(op) ==
  /\ Idle
  /\ /\ last' = Call(op, NullHandle, NullResult(op).ret, "null")
     /\ SetLastError(NullResult(op).err)
     /\ UNCHANGED <<files, fdtab, handles, names, pending>>

GetStdHandle(nStdHandle, fault) ==
  /\ Idle
  /\ IF StdStream(nStdHandle) = -1
     THEN /\ last' = Construction("GetStdHandle", INVALID_HANDLE_VALUE,
                                  "INVALID_HANDLE_VALUE", "id")
          /\ UNCHANGED <<files, fdtab, handles, names, lastError, pending>>
     ELSE LET r == FileHandle_New(handles, names, StdStream(nStdHandle), fault)
              h == IF r.h = NullHandle THEN INVALID_HANDLE_VALUE ELSE r.h
          IN /\ handles' = r.handles
             /\ names' = r.names
             /\ SetLastError(r.err)
             /\ last' = [Construction("GetStdHandle", h, HandleRet(h),
                                      IF r.h = NullHandle THEN "memory" ELSE "none")
                           EXCEPT !.fd = StdStream(nStdHandle)]
             /\ UNCHANGED <<files, fdtab, pending>>

\* GetFileHandleForFileDescriptor: fcntl() refuses a descriptor that is not
\* open; fdopen() wraps it.
GetFileHandleForFileDescriptor(fd, fault) ==
  /\ Idle
  /\ IF ~fdtab[fd].open \/ fault = "fdopen"
     THEN /\ last' = [Construction("GetFileHandleForFileDescriptor", INVALID_HANDLE_VALUE,
                                   "INVALID_HANDLE_VALUE", "fd") EXCEPT !.fd = fd]
          /\ UNCHANGED <<files, fdtab, handles, names, lastError, pending>>
     ELSE LET r == FileHandle_New(handles, names, fd, fault)
              h == IF r.h = NullHandle THEN INVALID_HANDLE_VALUE ELSE r.h
          IN /\ handles' = r.handles
             /\ names' = r.names
             /\ SetLastError(r.err)
             /\ last' = [Construction("GetFileHandleForFileDescriptor", h, HandleRet(h),
                                      IF r.h = NullHandle THEN "memory" ELSE "none")
                           EXCEPT !.fd = fd]
             /\ UNCHANGED <<files, fdtab, pending>>

\* The operation op is bound in the table of the handle h.
Bound(h, op) == op \in HandleOps(handles[h].ops)

\* A call of the operation op on a live handle whose table has no entry for
\* it: the caller of the table refuses it, and the handle is not touched.
Unbound(h, op) ==
  /\ Idle
  /\ ~Bound(h, op)
  /\ last' = [Call(op, h, "FALSE", "unsupported")
                EXCEPT !.fd = handles[h].fp, !.locked = handles[h].bLocked]
  /\ UNCHANGED <<files, fdtab, handles, names, lastError, pending>>

\* What a call on the handle h finds: its descriptor, file, position and lock.
Found(op, h, ret, why) ==
  LET fd == handles[h].fp
      f == fdtab[fd].file
  IN [Call(op, h, ret, why)
        EXCEPT !.fd = fd, !.path = f, !.pos = fdtab[fd].pos,
               !.pre = IF f \in Paths THEN files[f] ELSE NoFile,
               !.locked = handles[h].bLocked, !.lock = fdtab[fd].lock]

\* ReadFile on a live handle.
Read(h, n, overlapped, fault) ==
  /\ Idle
  /\ LET r == FileRead(files, fdtab, handles, h, n, overlapped, fault)
     IN /\ fdtab' = r.fdtab
        /\ SetLastError(r.err)
        /\ last' = [Found("FileRead", h, BoolRet(r.ok),
                          IF overlapped THEN "overlapped" ELSE fault)
                      EXCEPT !.n = n, !.count = r.count, !.moved = r.moved, !.data = r.data]
        /\ UNCHANGED <<files, handles, names, pending>>

\* WriteFile on a live handle; the file stays within MaxSize bytes.
Write(h, B, overlapped, fault) ==
  /\ Idle
  /\ fdtab[handles[h].fp].pos + Len(B) <= MaxSize
  /\ LET r == FileWrite(files, fdtab, handles, h, B, overlapped, fault)
     IN /\ files' = r.files
        /\ fdtab' = r.fdtab
        /\ last' = [Found("FileWrite", h, BoolRet(r.ok),
                          IF overlapped THEN "overlapped" ELSE fault)
                      EXCEPT !.n = Len(B), !.count = r.count, !.moved = r.moved,
                             !.data = SubSeq(B, 1, r.moved)]
        /\ UNCHANGED <<handles, names, lastError, pending>>

\* SetFilePointer on a live handle; the position stays within MaxSize.
SetFilePointer(h, lDistanceToMove, dwMoveMethod) ==
  /\ Idle
  /\ LET r == FileSetFilePointer(files, fdtab, handles, h, lDistanceToMove, dwMoveMethod)
     IN /\ r.ok => r.ret <= MaxSize
        /\ fdtab' = r.fdtab
        /\ last' = [Found("FileSetFilePointer", h,
                          IF r.ok THEN "POSITION" ELSE "INVALID_SET_FILE_POINTER",
                          IF r.ok THEN "none" ELSE "fseek")
                      EXCEPT !.n = lDistanceToMove, !.method = dwMoveMethod,
                             !.count = r.ret]
        /\ UNCHANGED <<files, handles, names, lastError, pending>>

\* GetFileSize on a live handle.
GetFileSize(h, fault) ==
  /\ Idle
  /\ LET r == FileGetFileSize(files, fdtab, handles, h, fault)
     IN /\ fdtab' = r.fdtab
        /\ last' = [Found("FileGetFileSize", h,
                          IF r.ok THEN "SIZE" ELSE "INVALID_FILE_SIZE",
                          IF r.ok THEN "none" ELSE "stream")
                      EXCEPT !.count = r.ret]
        /\ UNCHANGED <<files, handles, names, lastError, pending>>

\* SetEndOfFile on a live handle.
SetEndOfFile(h, fault) ==
  /\ Idle
  /\ LET r == FileSetEndOfFile(files, fdtab, handles, h, fault)
     IN /\ files' = r.files
        /\ last' = Found("FileSetEndOfFile", h, BoolRet(r.ok),
                         IF r.ok THEN "none" ELSE "ftruncate")
        /\ UNCHANGED <<fdtab, handles, names, lastError, pending>>

\* SetFileTime on a live handle.
SetFileTime(h, lpCreationTime, lpLastAccessTime, lpLastWriteTime, fault) ==
  /\ Idle
  /\ LET r == FileSetFileTime(files, fdtab, handles, h, lpCreationTime,
                              lpLastAccessTime, lpLastWriteTime, fault)
     IN /\ files' = r.files
        /\ last' = [Found("FileSetFileTime", h, BoolRet(r.ok),
                          IF r.ok THEN "none" ELSE "futimens")
                      EXCEPT !.times = <<lpCreationTime, lpLastAccessTime, lpLastWriteTime>>]
        /\ UNCHANGED <<fdtab, handles, names, lastError, pending>>

\* The whole program. A call is made while no result waits for its caller.
Next ==
  \/ \E path \in Paths, access \in Accesses, share \in ShareModes,
        disp \in Dispositions, fault \in CreateFaults :
        CreateFile(path, access, share, disp, fault)
  \/ \E h \in LiveFiles \cup {NullHandle}, flags \in LockFlags, overlapped \in BOOLEAN,
        fault \in LockFaults : LockFileEx(h, flags, overlapped, fault)
  \/ \E h \in LiveFiles \cup {NullHandle}, fault \in LockFaults : UnlockFile(h, fault)
  \/ \E h \in LiveFiles \cup {NullHandle}, overlapped \in BOOLEAN,
        fault \in LockFaults : UnlockFileEx(h, overlapped, fault)
  \/ \E p \in pending : FlockGranted(p)
  \/ \E p \in pending : FlockInterrupted(p)
  \/ \E h \in Live \cup {NullHandle} : CloseHandle(h)
  \/ \E h \in Live \cup {NullHandle} : GetFd(h)
  \/ \E op \in NullOnlyOps : NullCall(op)
  \/ \E nStdHandle \in StdHandleIds, fault \in AdoptFaults \ {"fdopen"} :
        GetStdHandle(nStdHandle, fault)
  \/ \E fd \in Fds, fault \in AdoptFaults : GetFileHandleForFileDescriptor(fd, fault)
  \/ \E h \in Live, n \in Lengths, overlapped \in BOOLEAN, fault \in ReadFaults :
        Read(h, n, overlapped, fault)
  \/ \E h \in Live, B \in Buffers, overlapped \in BOOLEAN, fault \in WriteFaults :
        Write(h, B, overlapped, fault)
  \/ \E h \in LiveFiles, d \in Distances, m \in MoveMethods : SetFilePointer(h, d, m)
  \/ \E h \in LiveFiles, fault \in SizeFaults : GetFileSize(h, fault)
  \/ \E h \in LiveFiles, fault \in TruncFaults : SetEndOfFile(h, fault)
  \/ \E h \in LiveFiles, c \in FileTimes, a \in FileTimes, w \in FileTimes,
        fault \in TimeFaults : SetFileTime(h, c, a, w, fault)
  \/ Observe

Spec == Init /\ [][Next]_vars

\* Path-based construction without a share mode, and close: every access
\* and disposition, on a file that may or may not exist.
NextOpen ==
  \/ \E path \in Paths, access \in Accesses, disp \in Dispositions,
        fault \in CreateFaults \ {"flock"} :
        CreateFile(path, access, {}, disp, fault)
  \/ \E h \in Live : CloseHandle(h)
  \/ Observe

SpecOpen == Init /\ [][NextOpen]_vars

\* Path-based construction with every share mode, and close: flock() may
\* succeed, fail or block.
NextShare ==
  \/ \E path \in Paths, share \in ShareModes,
        disp \in {"OPEN_ALWAYS", "OPEN_EXISTING"}, fault \in {"none", "flock"} :
        CreateFile(path, {GENERIC_READ, GENERIC_WRITE}, share, disp, fault)
  \/ \E p \in pending : FlockGranted(p)
  \/ \E p \in pending : FlockInterrupted(p)
  \/ \E h \in Live : CloseHandle(h)
  \/ Observe

SpecShare == InitAbsentOrEmpty /\ [][NextShare]_vars

\* The lock calls on path-opened handles.
NextLock ==
  \/ \E path \in Paths, share \in {{}, {FILE_SHARE_READ}} :
        CreateFile(path, {GENERIC_READ, GENERIC_WRITE}, share, "OPEN_ALWAYS", "none")
  \/ \E h \in LiveFiles, flags \in LockFlags, overlapped \in BOOLEAN,
        fault \in LockFaults : LockFileEx(h, flags, overlapped, fault)
  \/ \E h \in LiveFiles, fault \in LockFaults : UnlockFile(h, fault)
  \/ \E h \in LiveFiles, overlapped \in BOOLEAN, fault \in LockFaults :
        UnlockFileEx(h, overlapped, fault)
  \/ \E p \in pending : FlockGranted(p)
  \/ \E p \in pending : FlockInterrupted(p)
  \/ \E h \in Live : CloseHandle(h)
  \/ Observe

SpecLock == InitEmptyFiles /\ [][NextLock]_vars

\* Adopted streams and descriptors, close, and the calls on a NULL handle.
NextHandle ==
  \/ \E path \in Paths :
        CreateFile(path, {GENERIC_READ, GENERIC_WRITE}, {}, "OPEN_ALWAYS", "none")
  \/ \E nStdHandle \in StdHandleIds, fault \in {"none", "calloc"} :
        GetStdHandle(nStdHandle, fault)
  \/ \E fd \in Fds, fault \in {"none", "fdopen", "calloc"} :
        GetFileHandleForFileDescriptor(fd, fault)
  \/ \E h \in Live \cup {NullHandle} : CloseHandle(h)
  \/ \E h \in Live \cup {NullHandle} : GetFd(h)
  \/ \E op \in NullOnlyOps : NullCall(op)
  \/ LockFileEx(NullHandle, {}, FALSE, "none")
  \/ UnlockFile(NullHandle, "none")
  \/ UnlockFileEx(NullHandle, FALSE, "none")
  \/ Observe

SpecHandle == InitEmptyFiles /\ [][NextHandle]_vars

\* One file, which exists, with any content up to MaxLen bytes.
OnePath == CHOOSE p \in Paths : TRUE
InitOneFile ==
  \E s \in InitContents :
    InitWith([p \in Paths |-> IF p = OnePath THEN [NewFile EXCEPT !.data = s] ELSE NoFile])

\* Reading, writing, seeking, measuring and truncating one file through one
\* path-opened handle at a time, which may hold the shared lock.
NextIo ==
  \/ \E access \in Accesses, share \in {{}, {FILE_SHARE_READ}},
        disp \in {"CREATE_NEW", "CREATE_ALWAYS", "OPEN_EXISTING"} :
        /\ Live = {}
        /\ CreateFile(OnePath, access, share, disp, "none")
  \/ \E h \in LiveFiles, n \in Lengths : Read(h, n, TRUE, "none")
  \/ \E h \in LiveFiles, n \in Lengths, fault \in ReadFaults : Read(h, n, FALSE, fault)
  \/ \E h \in LiveFiles, B \in Buffers : Write(h, B, TRUE, "none")
  \/ \E h \in LiveFiles, B \in Buffers, fault \in WriteFaults : Write(h, B, FALSE, fault)
  \/ \E h \in LiveFiles, d \in Distances, m \in MoveMethods : SetFilePointer(h, d, m)
  \/ \E h \in LiveFiles, fault \in SizeFaults : GetFileSize(h, fault)
  \/ \E h \in LiveFiles, fault \in TruncFaults : SetEndOfFile(h, fault)
  \/ \E h \in Live : CloseHandle(h)
  \/ Observe

SpecIo == InitOneFile /\ [][NextIo]_vars

\* Setting the time stamps of one file through one path-opened handle at a
\* time.
NextTime ==
  \/ /\ Live = {}
     /\ CreateFile(OnePath, {GENERIC_READ, GENERIC_WRITE}, {}, "OPEN_EXISTING", "none")
  \/ \E h \in LiveFiles, c \in FileTimes, a \in FileTimes, w \in FileTimes,
        fault \in TimeFaults : SetFileTime(h, c, a, w, fault)
  \/ \E h \in Live : CloseHandle(h)
  \/ Observe

SpecTime == InitOneFile /\ [][NextTime]_vars

\* Every way of constructing a handle, with every step that can fail, and
\* close. No handle is constructed while a construction waits inside flock().
NextBuild ==
  \/ \E share \in {{}, {FILE_SHARE_READ}, {FILE_SHARE_WRITE}},
        disp \in {"OPEN_ALWAYS", "OPEN_EXISTING"}, fault \in CreateFaults :
        /\ pending = {}
        /\ CreateFile(OnePath, {GENERIC_READ, GENERIC_WRITE}, share, disp, fault)
  \/ \E nStdHandle \in StdHandleIds, fault \in AdoptFaults \ {"fdopen"} :
        /\ pending = {}
        /\ GetStdHandle(nStdHandle, fault)
  \/ \E fd \in Fds, fault \in AdoptFaults :
        /\ pending = {}
        /\ GetFileHandleForFileDescriptor(fd, fault)
  \/ \E p \in pending : FlockGranted(p)
  \/ \E p \in pending : FlockInterrupted(p)
  \/ \E h \in Live : CloseHandle(h)
  \/ Observe

SpecBuild == InitAbsentOrEmpty /\ [][NextBuild]_vars

\* Handles of both kinds side by side: path-opened handles with and without
\* the shared lock, adopted streams and descriptors, the lock call on the
\* handles whose table binds it, and the refusal of the operations a table
\* does not bind. No handle is constructed while a call waits inside flock().
NextTables ==
  \/ \E share \in {{}, {FILE_SHARE_READ}} :
        /\ pending = {}
        /\ CreateFile(OnePath, {GENERIC_READ, GENERIC_WRITE}, share, "OPEN_ALWAYS", "none")
  \/ /\ pending = {}
     /\ GetStdHandle("STD_INPUT_HANDLE", "none")
  \/ \E fd \in InheritedFds :
        /\ pending = {}
        /\ GetFileHandleForFileDescriptor(fd, "none")
  \/ \E h \in Live, flags \in LockFlags, overlapped \in BOOLEAN, fault \in LockFaults :
        /\ Bound(h, "FileLockFileEx")
        /\ LockFileEx(h, flags, overlapped, fault)
  \/ \E h \in Live, op \in fileOps \ shmOps : Unbound(h, op)
  \/ \E p \in pending : FlockGranted(p)
  \/ \E p \in pending : FlockInterrupted(p)
  \/ \E h \in Live : CloseHandle(h)
  \/ Observe

SpecTables == InitEmptyFiles /\ [][NextTables]_vars

\* ------------------------------------------------------------ the claims
Unlocks == {"FileUnlockFile", "FileUnlockFileEx"}
Returned(op) == last.op = op
Constructed == last.op = "FileCreateFileA" /\ last.ret = "HANDLE"
Closed == last.op = "FileCloseHandle" /\ last.ret = "TRUE"

\* C1: on a path-opened handle, a lock call made right after a successful lock
\* of the same handle fails because the handle is locked, and an unlock call
\* made right after a successful unlock of the same handle fails because the
\* handle is not locked.
C1_SecondLockAndSecondUnlockFail ==
  /\ (Returned("FileLockFileEx") /\ last.afterOp = "lock" /\ last.afterH = last.h)
       => (last.ret = "FALSE" /\ last.why = "locked")
  /\ (last.op \in Unlocks /\ last.afterOp = "unlock" /\ last.afterH = last.h)
       => (last.ret = "FALSE" /\ last.why = "notlocked")

\* C2: a successful unlock leaves the handle Unlocked, and a lock call made
\* right after a successful unlock of the same handle, without an overlapped
\* argument and with flock() succeeding, succeeds.
C2_UnlockMakesHandleLockableAgain ==
  /\ (last.op \in Unlocks /\ last.ret = "TRUE") => ~handles[last.h].bLocked
  /\ (Returned("FileLockFileEx") /\ last.afterOp = "unlock" /\ last.afterH = last.h
        /\ last.why \notin {"overlapped", "flock"})
       => last.ret = "TRUE"

\* C3: after a close that succeeded, a descriptor 0, 1 or 2 of the closed
\* handle is still open, a descriptor above 2 is closed, and the handle record
\* and its name string are freed.
C3_CloseSparesStandardDescriptors ==
  Closed =>
    /\ last.fd \in 0..2 => fdtab[last.fd].open
    /\ last.fd > 2 => ~fdtab[last.fd].open
    /\ ~handles[last.h].alloc
    /\ last.h \notin names

\* A handle on descriptor 0, 1 or 2 has been closed.
C3_ClosedStandardStreamHandle == Closed /\ last.fd \in 0..2 /\ fdtab[last.fd].open

\* C4: the mode and the create flag FileGetMode gives a construction are those
\* of the table, for every access and disposition.
C4_ModeTable ==
  Returned("FileCreateFileA") =>
    <<last.mode, last.create>> =
      CASE last.disp = "CREATE_ALWAYS" /\ GENERIC_WRITE \in last.access -> <<"wb+", TRUE>>
        [] last.disp = "CREATE_ALWAYS" /\ GENERIC_WRITE \notin last.access -> <<"rwb", TRUE>>
        [] last.disp = "CREATE_NEW" -> <<"wb+", TRUE>>
        [] last.disp = "OPEN_ALWAYS" -> <<"rb+", TRUE>>
        [] last.disp = "OPEN_EXISTING" -> <<"rb+", FALSE>>
        [] last.disp = "TRUNCATE_EXISTING" -> <<"wb+", FALSE>>
        [] OTHER -> <<"", FALSE>>

\* A construction asked for CREATE_ALWAYS without write access.
C4_CreateAlwaysReadOnly ==
  /\ Returned("FileCreateFileA")
  /\ last.disp = "CREATE_ALWAYS"
  /\ GENERIC_WRITE \notin last.access
  /\ last.mode = "rwb"

\* C5: a construction with OPEN_EXISTING, TRUNCATE_EXISTING or an unlisted
\* disposition on a path that does not exist returns INVALID_HANDLE_VALUE and
\* the path still does not exist.
C5_NoCreateIntentFailsOnMissingFile ==
  (Returned("FileCreateFileA")
     /\ last.disp \in {"OPEN_EXISTING", "TRUNCATE_EXISTING", "UNLISTED"}
     /\ ~last.pre.exists)
    => (last.ret = "INVALID_HANDLE_VALUE" /\ ~files[last.path].exists)

\* C6: the handle a construction returns is Locked and its description holds
\* the advisory lock iff the share mode has FILE_SHARE_READ or FILE_SHARE_WRITE:
\* exclusive with FILE_SHARE_WRITE, shared otherwise; with no share bit the
\* handle is Unlocked and holds no lock.
C6_ShareModeDecidesLock ==
  Constructed =>
    LET rec == handles[last.h]
        held == fdtab[rec.fp].lock
    IN IF FILE_SHARE_WRITE \in last.share THEN rec.bLocked /\ held = "ex"
       ELSE IF FILE_SHARE_READ \in last.share THEN rec.bLocked /\ held = "sh"
       ELSE ~rec.bLocked /\ held = "none"

\* A construction with both share bits returned a handle that holds the
\* exclusive lock.
C6_BothShareBitsLockExclusive ==
  /\ Constructed
  /\ last.share = {FILE_SHARE_READ, FILE_SHARE_WRITE}
  /\ handles[last.h].bLocked
  /\ fdtab[handles[last.h].fp].lock = "ex"

\* C7, as claimed: a construction that finds a conflicting lock held by another
\* open handle returns INVALID_HANDLE_VALUE instead of waiting for the lock.
C7_ConflictFailsConstruction ==
  (Returned("FileCreateFileA") /\ last.waited) => last.ret = "INVALID_HANDLE_VALUE"

\* C7, amended: a construction that finds a conflicting lock waits inside
\* flock(), holding no lock; when it returns a handle, the handle is Locked,
\* holds the lock it asked for and no other description holds a conflicting
\* one; it returns INVALID_HANDLE_VALUE after the open only when flock() fails,
\* and then the stream it opened is closed and no record or name is left of it.
C7_ConstructionWaitsForLock ==
  /\ \A p \in pending :
       p.call.op = "FileCreateFileA" =>
         /\ handles[p.h].alloc
         /\ ~handles[p.h].bLocked
         /\ fdtab[handles[p.h].fp].lock = "none"
  /\ (Constructed /\ last.waited) =>
       /\ handles[last.h].bLocked
       /\ fdtab[last.fd].lock = (IF FILE_SHARE_WRITE \in last.share THEN "ex" ELSE "sh")
       /\ ~FlockConflict(fdtab, last.fd, fdtab[last.fd].lock)
  /\ (Returned("FileCreateFileA") /\ last.waited /\ last.ret = "INVALID_HANDLE_VALUE")
       => last.why = "flock"
  /\ (Returned("FileCreateFileA") /\ last.why = "flock") =>
       /\ last.ret = "INVALID_HANDLE_VALUE"
       /\ ~fdtab[last.fd].open
       /\ \A h \in HandleIds : handles[h].alloc => handles[h].fp # last.fd
       /\ names = {h \in HandleIds : handles[h].alloc}

\* A construction waited for a conflicting lock and then returned a handle.
C7_WaitedThenLocked == Constructed /\ last.waited /\ handles[last.h].bLocked

\* C8: after the close of a path-opened handle that was Locked, its descriptor
\* is closed and holds no lock; if the lock it held was exclusive, no
\* description of the file holds a lock, so that any other handle can lock
\* the file exclusively.
C8_CloseReleasesLock ==
  (Closed /\ last.locked /\ last.path \in Paths) =>
    /\ ~fdtab[last.fd].open
    /\ fdtab[last.fd].lock = "none"
    /\ last.lock = "ex" =>
         \A d \in Fds : (fdtab[d].open /\ fdtab[d].file = last.path) => fdtab[d].lock = "none"

\* A Locked handle that held the exclusive lock has been closed.
C8_ClosedExclusiveHolder == Closed /\ last.locked /\ last.lock = "ex"

\* C9: every operation of the table called with a NULL handle returns its
\* failure value and leaves ERROR_INVALID_HANDLE as the last error.
C9_NullHandleIsInvalidHandle ==
  (last.h = NullHandle
     /\ last.op \in NullOnlyOps \cup Unlocks
                    \cup {"FileLockFileEx", "FileGetFd", "FileCloseHandle"})
    => /\ last.ret = CASE last.op = "FileSetFilePointer" -> "INVALID_SET_FILE_POINTER"
                       [] last.op = "FileGetFileSize" -> "INVALID_FILE_SIZE"
                       [] last.op = "FileGetFd" -> "-1"
                       [] OTHER -> "FALSE"
       /\ lastError = "ERROR_INVALID_HANDLE"

\* C10: right after a construction returned a handle on a file that existed
\* with N > 0 bytes, the file is empty when the disposition is
\* TRUNCATE_EXISTING, CREATE_NEW or CREATE_ALWAYS with write access, and is as
\* it was when the disposition is OPEN_EXISTING or OPEN_ALWAYS.
C10_DispositionDecidesTruncation ==
  (Constructed /\ ~last.waited /\ last.pre.exists /\ Len(last.pre.data) > 0) =>
    /\ (\/ last.disp \in {"TRUNCATE_EXISTING", "CREATE_NEW"}
        \/ (last.disp = "CREATE_ALWAYS" /\ GENERIC_WRITE \in last.access))
         => (files[last.path].exists /\ Len(files[last.path].data) = 0)
    /\ last.disp \in {"OPEN_EXISTING", "OPEN_ALWAYS"} => files[last.path] = last.pre

\* TRUNCATE_EXISTING has emptied a file that held bytes.
C10_TruncateExistingEmptied ==
  /\ Constructed
  /\ last.disp = "TRUNCATE_EXISTING"
  /\ Len(last.pre.data) > 0
  /\ files[last.path].data = <<>>

\* C11: a size query that succeeds returns the length of the file and leaves
\* the stream where it was; made right after a seek to X it leaves the stream
\* at X, and the read that follows it delivers the bytes of the file from X on.
C11_SizeQueryKeepsPosition ==
  /\ (Returned("FileGetFileSize") /\ last.ret = "SIZE") =>
       /\ last.count = Len(files[last.path].data)
       /\ fdtab[last.fd].pos = last.pos
       /\ (last.afterOp = "seek" /\ last.afterH = last.h) => fdtab[last.fd].pos = last.afterX
  /\ (Returned("FileRead") /\ last.afterOp = "seeksize" /\ last.afterH = last.h
        /\ last.why = "none") =>
       /\ last.pos = last.afterX
       /\ last.moved = Min(last.n, Max(0, Len(last.pre.data) - last.afterX))
       /\ last.data = SubSeq(last.pre.data, last.afterX + 1, last.afterX + last.moved)

\* A read delivered bytes from a position X > 0 that a seek had set and a size
\* query had found.
C11_ReadAfterSeekAndSize ==
  /\ Returned("FileRead")
  /\ last.afterOp = "seeksize"
  /\ last.afterH = last.h
  /\ last.afterX > 0
  /\ last.moved > 0

SetTime == last.op = "FileSetFileTime" /\ last.ret = "TRUE"

\* C12: after a set-time call that succeeded, a stamp whose tick count T was
\* given is floor(T / 10^7) - 11644473600 seconds and (T mod 10^7) * 100
\* nanoseconds, and converting it back to ticks gives T.
C12_TicksToNativeAndBack ==
  LET Epoch == <<EPOCH_DIFF[2], EPOCH_DIFF[3]>>
      Borrow(T) == IF T[2] < Epoch[2] THEN 1 ELSE 0
      Exact(T) ==
        [sec |-> <<T[1] - Epoch[1] - Borrow(T), T[2] - Epoch[2] + Borrow(T) * Limb>>,
         nsec |-> T[3] * 100]
      Back(ts) ==
        LET lo == ts.sec[2] + Epoch[2]
        IN <<ts.sec[1] + Epoch[1] + lo \div Limb, lo % Limb, ts.nsec \div 100>>
  IN SetTime =>
       /\ last.times[2] # NullTime =>
            /\ files[last.path].atime = Exact(last.times[2])
            /\ Back(files[last.path].atime) = last.times[2]
       /\ last.times[3] # NullTime =>
            /\ files[last.path].mtime = Exact(last.times[3])
            /\ Back(files[last.path].mtime) = last.times[3]

\* C13: after a set-time call that succeeded, a stamp whose argument was
\* absent is what it was before the call, a stamp whose argument was given is
\* the time given, and the result does not depend on the creation time.
C13_AbsentStampIsKept ==
  LET Epoch == <<EPOCH_DIFF[2], EPOCH_DIFF[3]>>
      Borrow(T) == IF T[2] < Epoch[2] THEN 1 ELSE 0
      Given(T) ==
        [sec |-> <<T[1] - Epoch[1] - Borrow(T), T[2] - Epoch[2] + Borrow(T) * Limb>>,
         nsec |-> T[3] * 100]
  IN SetTime =>
       /\ files[last.path].atime =
            IF last.times[2] = NullTime THEN last.pre.atime ELSE Given(last.times[2])
       /\ files[last.path].mtime =
            IF last.times[3] = NullTime THEN last.pre.mtime ELSE Given(last.times[3])
       /\ files[last.path].data = last.pre.data

\* C14: a read or a write that carries an overlapped request returns FALSE and
\* transfers nothing: the file, the position of the stream, the handle's lock
\* state and the lock of its description are what they were.
C14_OverlappedTransfersNothing ==
  (last.op \in {"FileRead", "FileWrite"} /\ last.why = "overlapped") =>
    /\ last.ret = "FALSE"
    /\ last.moved = 0
    /\ files[last.path] = last.pre
    /\ fdtab[last.fd].pos = last.pos
    /\ handles[last.h].bLocked = last.locked
    /\ fdtab[last.fd].lock = last.lock

\* An overlapped read was refused on a Locked handle whose file had the bytes
\* asked for.
C14_OverlappedReadRefused ==
  /\ Returned("FileRead")
  /\ last.why = "overlapped"
  /\ last.n > 0
  /\ Len(last.pre.data) - last.pos >= last.n
  /\ last.locked

\* C15: a read or a write of n bytes without an overlapped request returns
\* TRUE iff exactly n bytes were transferred, the count it reports on success
\* is the number of bytes transferred, and a short transfer returns FALSE and
\* does not report n bytes.
C15_TransferCountsAreExact ==
  (last.op \in {"FileRead", "FileWrite"} /\ last.why # "overlapped") =>
    /\ last.ret = "TRUE" <=> last.moved = last.n
    /\ last.ret = "TRUE" => last.count = last.moved
    /\ last.moved < last.n => (last.ret = "FALSE" /\ last.count # last.n)

\* C16: a construction that fails leaves no handle record and no name string
\* that was not allocated when it was called, and a construction that returns
\* a handle returns a record with a name string, an open stream and a
\* capability table.
C16_ConstructionAllOrNothing ==
  last.op \in {"FileCreateFileA", "GetStdHandle", "GetFileHandleForFileDescriptor"} =>
    IF last.ret = "HANDLE"
    THEN /\ handles[last.h].alloc
         /\ last.h \in names
         /\ handles[last.h].fp \in Fds /\ fdtab[handles[last.h].fp].open
         /\ handles[last.h].ops \in {"fileOps", "shmOps"}
    ELSE /\ Allocated(handles) \subseteq last.recs
         /\ names \subseteq last.strs

\* C17: after CREATE_NEW on an existing file, a write of B to the new handle,
\* its close and OPEN_EXISTING of the same path, a read of Len(B) bytes from
\* the reopened handle delivers exactly B.
C17_WriteCloseReopenReadBack ==
  (/\ last.op = "FileRead" /\ last.why = "none"
   /\ last.afterOp = "reopen" /\ last.afterH = last.h
   /\ last.n = Len(last.afterData)) =>
    /\ last.data = last.afterData
    /\ last.moved = last.n
    /\ last.n > 0 => last.ret = "TRUE"

C17_TwoBytesReadBack ==
  /\ last.op = "FileRead" /\ last.why = "none"
  /\ last.afterOp = "reopen" /\ last.afterH = last.h
  /\ last.n = 2 /\ last.afterData = <<2, 1>> /\ last.data = <<2, 1>>
  /\ last.ret = "TRUE"

\* C18: a lock call that returns FALSE leaves bLocked of its handle as it
\* was, and bLocked of a handle becomes TRUE only in the step in which a lock
\* call on that handle returns TRUE.
C18_LockedOnlyByLockCalls ==
  [][\A h \in HandleIds :
       /\ (last'.op = "FileLockFileEx" /\ last'.h = h /\ last'.ret = "FALSE") =>
            handles'[h].bLocked = handles[h].bLocked
       /\ (handles'[h].bLocked /\ ~handles[h].bLocked) =>
            (last'.op = "FileLockFileEx" /\ last'.h = h /\ last'.ret = "TRUE")]_vars

\* C18, amended: a lock call that returns FALSE leaves bLocked of its handle
\* as it was, and bLocked of a handle becomes TRUE only in the step in which a
\* lock call on that handle returns TRUE or in which the construction of that
\* handle with a share mode returns it.
C18_FailedLockKeepsState ==
  [][\A h \in HandleIds :
       /\ (last'.op = "FileLockFileEx" /\ last'.h = h /\ last'.ret = "FALSE") =>
            handles'[h].bLocked = handles[h].bLocked
       /\ (handles'[h].bLocked /\ ~handles[h].bLocked) =>
            \/ last'.op = "FileLockFileEx" /\ last'.h = h /\ last'.ret = "TRUE"
            \/ /\ last'.op = "FileCreateFileA" /\ last'.h = h /\ last'.ret = "HANDLE"
               /\ WantsShareLock(last'.share)]_vars

C18_LockRefusedOnShareLockedHandle ==
  /\ last.op = "FileLockFileEx" /\ last.ret = "FALSE" /\ last.why = "locked"
  /\ handles[last.h].bLocked
  /\ WantsShareLock(handles[last.h].dwShareMode)

\* C19: the table a live handle is bound to is the one its construction
\* selected and never changes: fileOps for a handle FileCreateFileA made,
\* shmOps for a handle GetStdHandle or GetFileHandleForFileDescriptor made;
\* shmOps binds no size, truncate, seek, lock, unlock or set-time operation,
\* and a handle bound to shmOps is never Locked.
C19_TableFixedAtConstruction ==
  [][\A h \in HandleIds :
       /\ (handles[h].alloc /\ handles'[h].alloc) => handles'[h].ops = handles[h].ops
       /\ (~handles[h].alloc /\ handles'[h].alloc) =>
            IF last'.op \in {"GetStdHandle", "GetFileHandleForFileDescriptor"} /\ last'.h = h
            THEN handles'[h].ops = "shmOps"
            ELSE /\ handles'[h].ops = "fileOps"
                 /\ \/ last'.op = "FileCreateFileA" /\ last'.h = h
                    \/ \E p \in pending' : p.h = h /\ p.call.op = "FileCreateFileA"
       /\ (handles'[h].alloc /\ handles'[h].ops = "shmOps") =>
            /\ ~handles'[h].bLocked
            /\ HandleOps(handles'[h].ops) \cap
                 {"FileGetFileSize", "FileSetEndOfFile", "FileSetFilePointer",
                  "FileLockFileEx", "FileUnlockFile", "FileUnlockFileEx",
                  "FileSetFileTime"} = {}
       /\ (handles'[h].alloc /\ handles'[h].ops = "fileOps") =>
            {"FileGetFileSize", "FileSetEndOfFile", "FileSetFilePointer",
             "FileLockFileEx", "FileUnlockFile", "FileUnlockFileEx",
             "FileSetFileTime"} \subseteq HandleOps(handles'[h].ops)]_vars

C19_LockRefusedOnAdoptedHandle ==
  /\ last.op = "FileLockFileEx" /\ last.why = "unsupported"
  /\ handles[last.h].alloc /\ handles[last.h].ops = "shmOps"
  /\ ~handles[last.h].bLocked
  /\ \E g \in HandleIds : handles[g].alloc /\ handles[g].ops = "fileOps" /\ handles[g].bLocked

\* C20: a successful set-end-of-file right after a successful seek of the
\* same handle to the absolute position X leaves the file X bytes long and
\* the position at X; a seek with an origin other than FILE_BEGIN,
\* FILE_CURRENT and FILE_END returns INVALID_SET_FILE_POINTER and leaves the
\* position where it was.
C20_SeekThenTruncate ==
  /\ (/\ last.op = "FileSetEndOfFile" /\ last.ret = "TRUE"
      /\ last.afterOp = "seek" /\ last.afterH = last.h) =>
       /\ Len(files[last.path].data) = last.afterX
       /\ fdtab[last.fd].pos = last.afterX
       /\ \A i \in 1..Min(last.afterX, Len(last.pre.data)) :
            files[last.path].data[i] = last.pre.data[i]
  /\ (/\ last.op = "FileSetFilePointer" /\ last.h # NullHandle
      /\ last.method \notin {"FILE_BEGIN", "FILE_CURRENT", "FILE_END"}) =>
       /\ last.ret = "INVALID_SET_FILE_POINTER"
       /\ fdtab[last.fd].pos = last.pos

C20_TruncateExtendsFile ==
  /\ last.op = "FileSetEndOfFile" /\ last.ret = "TRUE"
  /\ last.afterOp = "seek" /\ last.afterH = last.h
  /\ last.afterX = 2 /\ Len(last.pre.data) = 1
  /\ Len(files[last.path].data) = 2

====
